---- MODULE Spec2Model ----
(***************************************************************************)
(* JX.Request (src/src/Request.js): the lifecycle of AJAX requests, the    *)
(* static registry JX.Request._xhr, the timeout timer, the response        *)
(* envelope and the serialisation of the outgoing request; and JX.Event    *)
(* of the same file: stop(), prevent(), kill() and getSpecialKey().        *)
(*                                                                         *)
(* Strings are sequences of symbols.  A symbol is either one character     *)
(* that the code looks at ("?", "&", "=", the nine characters of the       *)
(* anti-hijacking prefix, ...) or an opaque run of text that stands for    *)
(* one character position ("http://x/y", a piece of JSON text).            *)
(* JavaScript values are tagged records, so that values of different       *)
(* JavaScript types are never equal.                                       *)
(***************************************************************************)
EXTENDS Integers, Sequences, FiniteSets, TLC

\* ------------------------------------------------------------ bounds
NumTransports == 2      \* JX.Request objects constructed by the page
MaxSends == 2           \* send() calls over all the objects
MaxDeferred == 1        \* deferred re-throws waiting for their tick
MaxNative == 3          \* calls an event makes to its native event's methods

Transports == 1 .. NumTransports

\* ------------------------------------------------------------ JavaScript values
Undefined == [undefined |-> TRUE]
Null == [null |-> TRUE]
Num(n) == [num |-> n]
Str(s) == [str |-> s]
Bool(b) == [bool |-> b]
Obj(o) == [obj |-> o]

\* ToBoolean, as used by `if (response.error)`, `a || b`, `a && b`
Truthy(v) == v \notin {Undefined, Null, Num(0), Str(<<>>), Bool(FALSE)}

\* property read o.f
Get(o, f) ==
  IF "obj" \in DOMAIN o /\ f \in DOMAIN o.obj THEN o.obj[f] ELSE Undefined

\* a property read raises TypeError on null and undefined
ReadRaises(o) == o \in {Undefined, Null}

\* statics.ERROR_TIMEOUT
ERROR_TIMEOUT == -9000

\* ------------------------------------------------------------ strings
\* String.prototype.indexOf: the least 0-based position of pat in s, or -1
IndexOf(s, pat) ==
  LET hits == {i \in 0 .. (Len(s) - Len(pat)) :
                 SubSeq(s, i + 1, i + Len(pat)) = pat}
  IN IF hits = {} THEN -1 ELSE CHOOSE i \in hits : \A j \in hits : i <= j

\* String.prototype.substring(n) with one argument
Substring(s, n) == SubSeq(s, n + 1, Len(s))

\* 'for (;;);'
Prefix == <<"f", "o", "r", " ", "(", ";", ";", ")", ";">>

\* String.prototype.toUpperCase on the method names in use
ToUpperCase(m) ==
  CASE m = <<"get">> -> <<"GET">>
    [] m = <<"post">> -> <<"POST">>
    [] OTHER -> m

\* encodeURIComponent on one symbol: the reserved characters are escaped,
\* the unreserved ones and opaque runs of unreserved text are kept
EncodeSymbol(c) ==
  CASE c = "&" -> <<"%26">>
    [] c = "=" -> <<"%3D">>
    [] c = "?" -> <<"%3F">>
    [] c = " " -> <<"%20">>
    [] OTHER -> <<c>>

RECURSIVE EncodeURIComponent(_)
EncodeURIComponent(s) ==
  IF s = <<>> THEN <<>>
  ELSE EncodeSymbol(Head(s)) \o EncodeURIComponent(Tail(s))

\* Array.prototype.join
RECURSIVE Join(_, _)
Join(q, sep) ==
  IF q = <<>> THEN <<>>
  ELSE IF Len(q) = 1 THEN q[1]
  ELSE q[1] \o sep \o Join(Tail(q), sep)

\* ------------------------------------------------------------ state
VARIABLES
  dev,        \* __DEV__, fixed by the build
  badAbort,   \* the objects whose platform handle raises from abort()
  listeners,  \* per object, per event type: the subscribers, in listen() order
  props,      \* per object: the properties URI, data, method, raw, timeout
  finished,   \* per object: _finished
  xhrkey,     \* per object: _xhrkey
  transport,  \* per object: _transport, null or the platform handle
  timer,      \* per object: _timer, "unset", "pending" or "dead"
  orphans,    \* per object: pending timers of it that _timer no longer names
  xhr,        \* JX.Request._xhr, with Hole where an entry was deleted
  log,        \* per object: what its handlers invoked, in order
  deferred,   \* exceptions handed to JX.defer for a re-throw
  exc,        \* the exception that escaped the last operation, or "none"
  handler,    \* whether the objects were constructed with a handler
  sends,      \* history: per object, how many times send() was called on it
  aborted,    \* history: the objects aborted in flight and not sent since
  raisers,    \* the onload snippets that raise
  swept,      \* history: the objects in _xhr when shutdown() was last called
  rawEvent,   \* JX.Event: the property rawEvent, null or the native event
  stopped,    \* JX.Event: the property stopped
  prevented,  \* JX.Event: the property prevented
  keymap,     \* JX.Event._keymap
  special,    \* JX.Event: where getSpecialKey() is, and its local c
  ret         \* JX.Event: the method that returned last, and its value

\* the variables of JX.Request and those of JX.Event
rvars ==
  <<dev, badAbort, listeners, props, finished, xhrkey, transport, timer,
    orphans, xhr, log, deferred, exc, handler, sends, aborted, raisers,
    swept>>
evars == <<rawEvent, stopped, prevented, keymap, special, ret>>

vars ==
  <<dev, badAbort, listeners, props, finished, xhrkey, transport, timer,
    orphans, xhr, log, deferred, exc, handler, sends, aborted, raisers,
    swept, rawEvent, stopped, prevented, keymap, special, ret>>

Hole == 0

\* the mutable state, as one record the handlers are functions of
St ==
  [props |-> props, finished |-> finished, xhrkey |-> xhrkey,
   transport |-> transport, timer |-> timer, orphans |-> orphans,
   xhr |-> xhr, log |-> log, deferred |-> deferred, exc |-> "none"]

Raise(s, e) == [s EXCEPT !.exc = e]
Catch(s) == [s EXCEPT !.exc = "none"]
Raised(s) == s.exc # "none"

\* ------------------------------------------------------------ construct
\* construct(uri, handler): a handler is a listener of 'done'.  The page then
\* listens to each of the three event types with one subscriber of its own.
Construct(h) ==
  [done |-> (IF h THEN <<"handler">> ELSE <<>>) \o <<"onDone">>,
   error |-> <<"onError">>,
   finally |-> <<"onFinally">>]

\* ------------------------------------------------------------ send
Map(m) == [map |-> m]
MarkerKey == <<"__async__">>

\* String(v) for the values a payload holds
StringOf(v) ==
  IF "bool" \in DOMAIN v THEN (IF v.bool THEN <<"true">> ELSE <<"false">>)
  ELSE v.str

\* data.__async__ = true: an own key keeps its place, a new key goes last
SetMarker(m) ==
  IF \E i \in 1 .. Len(m) : m[i].k = MarkerKey
  THEN [i \in 1 .. Len(m) |->
          IF m[i].k = MarkerKey THEN [k |-> MarkerKey, v |-> Bool(TRUE)] ELSE m[i]]
  ELSE Append(m, [k |-> MarkerKey, v |-> Bool(TRUE)])

\* the loop over the keys of data, then q.join('&')
QueryString(m) ==
  Join([i \in 1 .. Len(m) |->
          EncodeURIComponent(m[i].k) \o <<"=">>
            \o EncodeURIComponent(StringOf(m[i].v))],
       <<"&">>)

\* getData() || {}, with the marker set
SendData(p) == SetMarker(IF p.data = Null THEN <<>> ELSE p.data.map)

\* mutant: the query is always appended with '?'
RequestTarget_AlwaysQuestion(p) ==
  IF ToUpperCase(p.method) = <<"GET">>
  THEN p.URI \o <<"?">> \o QueryString(SendData(p))
  ELSE p.URI

\* the uri handed to xport.open()
RequestTarget(p) ==
  IF ToUpperCase(p.method) = <<"GET">>
  THEN p.URI
         \o (IF IndexOf(p.URI, <<"?">>) = -1 THEN <<"?">> ELSE <<"&">>)
         \o QueryString(SendData(p))
  ELSE p.URI

\* the platform handle after open(), setRequestHeader() and send()
Xport(p) ==
  [method |-> ToUpperCase(p.method),
   uri |-> RequestTarget(p),
   headers |-> IF ToUpperCase(p.method) = <<"POST">>
               THEN <<[name |-> "Content-Type",
                       value |-> "application/x-www-form-urlencoded"]>>
               ELSE <<>>,
   body |-> IF ToUpperCase(p.method) = <<"POST">>
            THEN Str(QueryString(SendData(p)))
            ELSE Null,
   aborted |-> FALSE]

Send(s, t) ==
  LET p == s.props[t] IN
  [s EXCEPT
     !.transport[t] = Xport(p),
     !.xhrkey[t] = Num(Len(s.xhr)),
     !.xhr = Append(s.xhr, t),
     !.props[t].data = IF p.data = Null THEN Null ELSE Map(SendData(p)),
     !.timer[t] = IF Truthy(p.timeout) THEN "pending" ELSE @,
     !.orphans[t] = IF Truthy(p.timeout) /\ s.timer[t] = "pending"
                    THEN @ + 1 ELSE @]

\* ------------------------------------------------------------ events
\* what a subscriber that runs now can observe of its request
Snapshot(s, t) ==
  [finished |-> s.finished[t],
   registered |-> \E i \in 1 .. Len(s.xhr) : s.xhr[i] = t,
   timers |-> (IF s.timer[t] = "pending" THEN 1 ELSE 0) + s.orphans[t],
   aborted |-> s.transport[t] # Null /\ s.transport[t].aborted]

\* something a handler of object t did that the outside observes
Effect(s, t, ch, args, to) ==
  [s EXCEPT !.log[t] =
     Append(@, [ch |-> ch, args |-> args, to |-> to, snap |-> Snapshot(s, t)])]

\* this.invoke(type, args...): every listener of the type is called
Invoke(s, t, type, args) == Effect(s, t, type, args, listeners[t][type])

\* ------------------------------------------------------------ teardown
RECURSIVE OnReadyStateChange(_, _, _, _, _)

\* delete JX.Request._xhr[key]
DeleteEntry(reg, key) ==
  IF "num" \in DOMAIN key /\ key.num < Len(reg)
  THEN [reg EXCEPT ![key.num + 1] = Hole]
  ELSE reg

\* mutant: the timer is never stopped
StopTimer_Forgotten(tm) == tm

\* this._timer && this._timer.stop()
StopTimer(tm) == IF tm = "pending" THEN "dead" ELSE tm

\* this._transport.abort(): the platform cancels the exchange and, the first
\* time, reports it at once with readyState 4, status 0 and an empty body
XportAbort(s, t) ==
  IF s.transport[t] = Null THEN Raise(s, "TypeError")
  ELSE IF t \in badAbort THEN Raise(s, "PlatformError")
  ELSE IF s.transport[t].aborted THEN s
  ELSE OnReadyStateChange([s EXCEPT !.transport[t].aborted = TRUE],
                          t, 4, 0, <<>>)

Cleanup(s, t) ==
  XportAbort([s EXCEPT !.finished[t] = TRUE,
                       !.xhr = DeleteEntry(@, s.xhrkey[t]),
                       !.timer[t] = StopTimer(@)],
             t)

Abort(s, t) == Cleanup(s, t)

\* mutant: the failure path forgets the teardown
Fail_NoCleanup(s, t, error) ==
  Invoke(Invoke(s, t, "error", <<error>>), t, "finally", <<>>)

\* mutant: the error value is not handed to the subscribers
Fail_DropsError(s, t, error) ==
  LET c == Cleanup(s, t) IN
  IF Raised(c) THEN c
  ELSE Invoke(Invoke(c, t, "error", <<Undefined>>), t, "finally", <<>>)

Fail(s, t, error) ==
  LET c == Cleanup(s, t) IN
  IF Raised(c) THEN c
  ELSE Invoke(Invoke(c, t, "error", <<error>>), t, "finally", <<>>)

\* (new Function(response.onload[ii]))() for each ii
RECURSIVE RunOnload(_, _, _)
RunOnload(s, t, snippets) ==
  LET e == Effect(s, t, "onload", <<Head(snippets)>>, <<>>) IN
  IF snippets = <<>> THEN s
  ELSE IF Head(snippets) \in raisers THEN Raise(e, "SnippetError")
  ELSE RunOnload(e, t, Tail(snippets))

Arr(a) == [arr |-> a]

\* mutant: the raw flag is ignored and the envelope is always delivered
Done_AlwaysEnvelope(s, t, response) ==
  LET c == Cleanup(s, t)
      l == IF Truthy(Get(response, "onload"))
           THEN RunOnload(c, t, Get(response, "onload").arr)
           ELSE c
  IN IF Raised(c) THEN c
     ELSE IF Raised(l) THEN l
     ELSE Invoke(Invoke(l, t, "done", <<response>>), t, "finally", <<>>)

\* mutant: the onload snippets run after the payload was delivered
Done_OnloadLast(s, t, response) ==
  LET c == Cleanup(s, t)
      arg == IF c.props[t].raw THEN response ELSE Get(response, "payload")
      d == Invoke(c, t, "done", <<arg>>)
      l == IF Truthy(Get(response, "onload"))
           THEN RunOnload(d, t, Get(response, "onload").arr)
           ELSE d
  IN IF Raised(c) THEN c ELSE Invoke(l, t, "finally", <<>>)

Done(s, t, response) ==
  LET c == Cleanup(s, t)
      l == IF Truthy(Get(response, "onload"))
           THEN RunOnload(c, t, Get(response, "onload").arr)
           ELSE c
      arg == IF l.props[t].raw THEN response ELSE Get(response, "payload")
  IN IF Raised(c) THEN c
     ELSE IF Raised(l) THEN l
     ELSE Invoke(Invoke(l, t, "done", <<arg>>), t, "finally", <<>>)

\* ------------------------------------------------------------ response
\* the JSON texts a server answers with, each one symbol of a body
TextPayload == "{payload:{x:1}}"
TextError == "{error:'e',payload:{x:1}}"
TextFalsyError == "{error:0,payload:{x:1}}"
TextFull ==
  "{payload:'p',onload:['s1','s2'],javelin_metadata:{m:1},javelin_behaviors:{b:[]}}"
TextNull == "null"
TextHtml == "<html>"

\* what eval yields for the texts that are expressions
Parsed ==
  (TextPayload :> Obj([payload |-> Obj([x |-> Num(1)])]))
  @@ (TextError :>
        Obj([error |-> Str(<<"e">>), payload |-> Obj([x |-> Num(1)])]))
  @@ (TextFalsyError :>
        Obj([error |-> Num(0), payload |-> Obj([x |-> Num(1)])]))
  @@ (TextFull :>
        Obj([payload |-> Str(<<"p">>),
             onload |-> Arr(<<"s1", "s2">>),
             javelin_metadata |-> Obj([m |-> Num(1)]),
             javelin_behaviors |-> Obj([b |-> Arr(<<>>)])]))
  @@ (TextNull :> Null)

\* eval(src): the value of '(' + one expression text + ')', else SyntaxError
Eval(src) ==
  IF Len(src) = 3 /\ src[1] = "(" /\ src[3] = ")" /\ src[2] \in DOMAIN Parsed
  THEN [ok |-> TRUE, value |-> Parsed[src[2]]]
  ELSE [ok |-> FALSE, value |-> Undefined]

EmptyObject == Obj(<<>>)

\* a || b
Or(a, b) == IF Truthy(a) THEN a ELSE b

\* the two checks made only when __DEV__ is set; either throws
DevRejects(responseText) ==
  dev /\ (Len(responseText) = 0 \/ IndexOf(responseText, Prefix) # 0)

\* JX.defer(function() { throw exception; })
DeferThrow(s) == [Catch(s) EXCEPT !.deferred = @ + 1]

\* the second try block: the envelope is acted upon
Respond(s, t, response) ==
  LET m == Effect(s, t, "mergeData",
                  <<Or(Get(response, "javelin_metadata"), EmptyObject)>>, <<>>)
      d == Done(m, t, response)
      r == IF ReadRaises(response) THEN Raise(s, "TypeError")
           ELSE IF Truthy(Get(response, "error"))
           THEN Fail(s, t, Get(response, "error"))
           ELSE IF Raised(d) THEN d
           ELSE Effect(d, t, "initBehaviors",
                       <<Or(Get(response, "javelin_behaviors"), EmptyObject)>>,
                       <<>>)
  IN IF Raised(r) THEN DeferThrow(r) ELSE r

\* the first try block and its catch
OnReadyStateChange(s, t, readyState, status, responseText) ==
  IF s.finished[t] THEN s
  ELSE IF readyState # 4 THEN s
  ELSE IF status < 200 \/ status >= 300
  THEN LET f == Fail(s, t, Undefined)
       IN IF Raised(f) THEN Fail(Catch(f), t, Undefined) ELSE f
  ELSE IF DevRejects(responseText) THEN Fail(s, t, Undefined)
  ELSE LET ev == Eval(<<"(">> \o Substring(responseText, Len(Prefix))
                        \o <<")">>)
       IN IF ev.ok THEN Respond(s, t, ev.value) ELSE Fail(s, t, Undefined)

\* ------------------------------------------------------------ shutdown
\* mutant: the sweep without its try/catch
RECURSIVE ShutdownLoop_NoCatch(_, _)
ShutdownLoop_NoCatch(s, ii) ==
  IF ii >= Len(s.xhr) \/ Raised(s) THEN s
  ELSE ShutdownLoop_NoCatch(IF s.xhr[ii + 1] # Hole
                            THEN Abort(s, s.xhr[ii + 1])
                            ELSE s,
                            ii + 1)

RECURSIVE ShutdownLoop(_, _)
ShutdownLoop(s, ii) ==
  IF ii >= Len(s.xhr) THEN s
  ELSE ShutdownLoop(IF s.xhr[ii + 1] # Hole
                    THEN Catch(Abort(s, s.xhr[ii + 1]))
                    ELSE s,
                    ii + 1)

Shutdown(s) == [ShutdownLoop(s, 0) EXCEPT !.xhr = <<>>]

\* ------------------------------------------------------------ JX.Event
\* `this`, as returned by stop(), prevent() and kill()
This == [this |-> TRUE]

\* statics._keymap as shipped
ShippedKeymap ==
  (8 :> Str(<<"delete">>)) @@ (9 :> Str(<<"tab">>))
  @@ (13 :> Str(<<"return">>)) @@ (27 :> Str(<<"esc">>))
  @@ (37 :> Str(<<"left">>)) @@ (38 :> Str(<<"up">>))
  @@ (39 :> Str(<<"right">>)) @@ (40 :> Str(<<"down">>))
  @@ (63232 :> Num(38)) @@ (63233 :> Num(40))
  @@ (62234 :> Num(37)) @@ (62235 :> Num(39))

\* JX.Event._keymap[c]
Lookup(km, c) ==
  IF "num" \in DOMAIN c /\ c.num \in DOMAIN km THEN km[c.num] ELSE Undefined

\* the event as its methods see it
Ev == [rawEvent |-> rawEvent, stopped |-> stopped, prevented |-> prevented,
       ret |-> ret]

\* r.stopPropagation && r.stopPropagation(), and the like
CallIfPresent(r, method) ==
  IF r[method] THEN [r EXCEPT !.calls = Append(@, method)] ELSE r

\* mutant: stop() prevents as well
Stop_AlsoPrevents(e) ==
  LET r == e.rawEvent IN
  [e EXCEPT
     !.rawEvent = IF r = Null THEN Null
                  ELSE CallIfPresent([r EXCEPT !.cancelBubble = TRUE],
                                     "stopPropagation"),
     !.stopped = TRUE,
     !.prevented = TRUE,
     !.ret = [op |-> "stop", value |-> This]]

Stop(e) ==
  LET r == e.rawEvent IN
  [e EXCEPT
     !.rawEvent = IF r = Null THEN Null
                  ELSE CallIfPresent([r EXCEPT !.cancelBubble = TRUE],
                                     "stopPropagation"),
     !.stopped = TRUE,
     !.ret = [op |-> "stop", value |-> This]]

Prevent(e) ==
  LET r == e.rawEvent IN
  [e EXCEPT
     !.rawEvent = IF r = Null THEN Null
                  ELSE CallIfPresent([r EXCEPT !.returnValue = FALSE],
                                     "preventDefault"),
     !.prevented = TRUE,
     !.ret = [op |-> "prevent", value |-> This]]

Kill(e) == [Stop(Prevent(e)) EXCEPT !.ret = [op |-> "kill", value |-> This]]

\* getSpecialKey(), up to the loop: the value returned at once, or the c the
\* loop starts with
KeyEntry(r) ==
  IF r = Null \/ r.shiftKey
  THEN [pc |-> "idle", c |-> Null]
  ELSE [pc |-> "loop", c |-> Num(r.keyCode)]

\* mutant: the table is looked up once
KeyIteration_Once(km, c) ==
  [pc |-> "idle", c |-> Or(Lookup(km, c), Null)]

\* one round of the do-while: the body, then the test
KeyIteration(km, c) ==
  LET d == Or(Lookup(km, c), Null) IN
  [pc |-> IF Truthy(d) /\ Truthy(Lookup(km, d)) THEN "loop" ELSE "idle",
   c |-> d]

\* a fresh event, with the table as shipped
NoReturn == [op |-> "none", value |-> Null]
EventIdle ==
  /\ rawEvent = Null
  /\ stopped = FALSE
  /\ prevented = FALSE
  /\ keymap = ShippedKeymap
  /\ special = [pc |-> "idle", c |-> Null]
  /\ ret = NoReturn

\* ------------------------------------------------------------ initial states
DefaultURI == <<"http://x/y">>

\* the properties as the page sets them before the first send(): the payload
\* and the method are the defaults, raw is either; timeout is set before send()
LifecycleProps ==
  {[URI |-> DefaultURI, data |-> Null, method |-> <<"POST">>,
    raw |-> r, timeout |-> Null] : r \in BOOLEAN}

InitRequest(propsSet, bad, devs, handlers, raising) ==
  /\ dev \in devs
  /\ raisers \in raising
  /\ badAbort \in bad
  /\ handler \in handlers
  /\ listeners = [t \in Transports |-> Construct(handler)]
  /\ \E p \in propsSet : props = [t \in Transports |-> p]
  /\ finished = [t \in Transports |-> FALSE]
  /\ xhrkey = [t \in Transports |-> Null]
  /\ transport = [t \in Transports |-> Null]
  /\ timer = [t \in Transports |-> "unset"]
  /\ orphans = [t \in Transports |-> 0]
  /\ xhr = <<>>
  /\ log = [t \in Transports |-> <<>>]
  /\ deferred = 0
  /\ exc = "none"
  /\ sends = [t \in Transports |-> 0]
  /\ aborted = {}
  /\ swept = {}

InitWith(propsSet, bad, devs, handlers) ==
  /\ InitRequest(propsSet, bad, devs, handlers, {{}})
  /\ EventIdle

\* the platform's abort() never raises
Init == InitWith(LifecycleProps, {{}}, BOOLEAN, BOOLEAN)

\* the payloads, URIs and methods a page sends
WireData ==
  {Null,
   Map(<<>>),
   Map(<<[k |-> <<"a">>, v |-> Str(<<"1">>)]>>),
   Map(<<[k |-> <<"a", " ", "b">>, v |-> Str(<<"c", "&", "d">>)],
         [k |-> <<"e">>, v |-> Str(<<"f">>)]>>),
   Map(<<[k |-> MarkerKey, v |-> Str(<<"0">>)],
         [k |-> <<"a">>, v |-> Str(<<"1">>)]>>)}
WireProps ==
  {[URI |-> u, data |-> d, method |-> m, raw |-> FALSE, timeout |-> Null] :
     u \in {DefaultURI, DefaultURI \o <<"?", "b", "=", "2">>},
     d \in WireData,
     m \in {<<"GET">>, <<"POST">>, <<"get">>}}

InitWire == InitWith(WireProps, {{}}, {FALSE}, {FALSE})

\* the abort() of some platform handles raises
InitThrow == InitWith(LifecycleProps, SUBSET Transports, {TRUE}, {TRUE})

\* what the completion handler runs and may raise: the snippets of the
\* envelopes
Callees == {"s1", "s2"}

\* some of them raise
InitRaise ==
  /\ InitRequest(LifecycleProps, {{}}, {FALSE}, {TRUE}, SUBSET Callees)
  /\ EventIdle

\* ------------------------------------------------------------ actions
\* the state a handler leaves behind
Apply(s) ==
  /\ props' = s.props
  /\ finished' = s.finished
  /\ xhrkey' = s.xhrkey
  /\ transport' = s.transport
  /\ timer' = s.timer
  /\ orphans' = s.orphans
  /\ xhr' = s.xhr
  /\ log' = s.log
  /\ deferred' = s.deferred
  /\ exc' = s.exc
  /\ UNCHANGED <<dev, badAbort, listeners, handler, raisers>>
  /\ UNCHANGED evars

RECURSIVE Sum(_, _)
Sum(f, S) ==
  IF S = {} THEN 0
  ELSE LET x == CHOOSE y \in S : TRUE IN f[x] + Sum(f, S \ {x})

TotalSends == Sum(sends, Transports)

\* what the platform reports with a readiness notification
Statuses == {199, 200, 299, 300}
NinePad == <<"1", "2", "3", "4", "5", "6", "7", "8", "9">>
Bodies ==
  {<<>>,
   Prefix,
   <<TextPayload>>,
   NinePad \o <<TextPayload>>,
   Prefix \o <<TextHtml>>,
   Prefix \o <<TextPayload>>,
   Prefix \o <<TextError>>,
   Prefix \o <<TextFalsyError>>,
   Prefix \o <<TextFull>>,
   Prefix \o <<TextNull>>}
Reports ==
  {[readyState |-> 3, status |-> 200, responseText |-> Prefix \o <<TextPayload>>]}
  \cup {[readyState |-> 4, status |-> 200, responseText |-> b] : b \in Bodies}
  \cup {[readyState |-> 4, status |-> st, responseText |-> b] :
          st \in Statuses, b \in {<<>>, Prefix \o <<TextPayload>>}}

\* the timeouts a page configures: none, or some milliseconds
Timeouts == {Null, Num(1)}

\* setTimeout(to), then send()
CallSend(t) ==
  /\ TotalSends < MaxSends
  /\ sends' = [sends EXCEPT ![t] = @ + 1]
  /\ \E to \in Timeouts : Apply(Send([St EXCEPT !.props[t].timeout = to], t))
  /\ aborted' = aborted \ {t}
  /\ UNCHANGED swept

InFlight(t) == sends[t] > 0 /\ ~finished[t]

Members(reg) == {reg[i] : i \in 1 .. Len(reg)} \ {Hole}

CallAbort(t) ==
  /\ Apply(Abort(St, t))
  /\ aborted' = IF InFlight(t) THEN aborted \cup {t} ELSE aborted
  /\ UNCHANGED <<sends, swept>>

\* the platform calls xport.onreadystatechange, reporting r
Report(t, r) ==
  /\ transport[t] # Null
  /\ deferred < MaxDeferred
  /\ Apply(OnReadyStateChange(St, t, r.readyState, r.status, r.responseText))
  /\ UNCHANGED <<sends, aborted, swept>>

ReadyStateChange(t) == \E r \in Reports : Report(t, r)

TimerFires(t) ==
  /\ timer[t] = "pending"
  /\ Apply(Fail([St EXCEPT !.timer[t] = "dead"], t, Num(ERROR_TIMEOUT)))
  /\ UNCHANGED <<sends, aborted, swept>>

OrphanTimerFires(t) ==
  /\ orphans[t] > 0
  /\ Apply(Fail([St EXCEPT !.orphans[t] = @ - 1], t, Num(ERROR_TIMEOUT)))
  /\ UNCHANGED <<sends, aborted, swept>>

CallShutdown ==
  /\ Apply(Shutdown(St))
  /\ swept' = Members(xhr)
  /\ UNCHANGED <<sends, aborted>>

\* the tick on which a deferred exception is thrown again, uncaught
DeferredThrow ==
  /\ deferred > 0
  /\ Apply([St EXCEPT !.deferred = @ - 1, !.exc = "uncaught"])
  /\ UNCHANGED <<sends, aborted, swept>>

Next ==
  \/ \E t \in Transports : CallSend(t)
  \/ \E t \in Transports : CallAbort(t)
  \/ \E t \in Transports : ReadyStateChange(t)
  \/ \E t \in Transports : TimerFires(t)
  \/ \E t \in Transports : OrphanTimerFires(t)
  \/ CallShutdown
  \/ DeferredThrow

Spec == Init /\ [][Next]_vars

SpecThrow == InitThrow /\ [][Next]_vars

SpecRaise == InitRaise /\ [][Next]_vars

\* requests of every shape are sent and aborted
NextWire ==
  \/ \E t \in Transports : CallSend(t)
  \/ \E t \in Transports : CallAbort(t)

SpecWire == InitWire /\ [][NextWire]_vars

\* ------------------------------------------------------------ JX.Event, run
\* the key codes a keyboard reports: those of the table and one outside it
KeyCodes == DOMAIN ShippedKeymap \cup {65}

\* the native events a JX.Event is made for; old browsers lack the methods
NativeEvents ==
  [cancelBubble : {FALSE}, returnValue : {TRUE},
   stopPropagation : BOOLEAN, preventDefault : BOOLEAN, calls : {<<>>},
   shiftKey : BOOLEAN, keyCode : KeyCodes]

\* tables an application has tampered with: a redirect to a redirect, and
\* two redirects to each other
ChainKeymap == [ShippedKeymap EXCEPT ![62234] = Num(63232)]
CycleKeymap ==
  [ShippedKeymap EXCEPT ![62234] = Num(62235), ![62235] = Num(62234)]
Keymaps == {ShippedKeymap, ChainKeymap, CycleKeymap}

\* no request is made while the event is handled
InitEventWith(tables) ==
  /\ InitRequest({CHOOSE p \in LifecycleProps : ~p.raw},
                 {{}}, {FALSE}, {FALSE}, {{}})
  /\ rawEvent \in {Null} \cup NativeEvents
  /\ stopped = FALSE
  /\ prevented = FALSE
  /\ keymap \in tables
  /\ special = [pc |-> "idle", c |-> Null]
  /\ ret = NoReturn

InitEvent == InitEventWith({ShippedKeymap})
InitKeymap == InitEventWith(Keymaps)

ApplyEv(e) ==
  /\ rawEvent' = e.rawEvent
  /\ stopped' = e.stopped
  /\ prevented' = e.prevented
  /\ ret' = e.ret
  /\ UNCHANGED <<keymap, special>>
  /\ UNCHANGED rvars

\* the native event can take n more calls
NativeRoom(n) ==
  IF rawEvent = Null THEN TRUE ELSE Len(rawEvent.calls) + n <= MaxNative

CallStop == special.pc = "idle" /\ NativeRoom(1) /\ ApplyEv(Stop(Ev))

CallPrevent == special.pc = "idle" /\ NativeRoom(1) /\ ApplyEv(Prevent(Ev))

CallKill == special.pc = "idle" /\ NativeRoom(2) /\ ApplyEv(Kill(Ev))

\* getSpecialKey() has come to `return c` with the local k
Returns(k) ==
  IF k.pc = "idle" THEN [op |-> "getSpecialKey", value |-> k.c] ELSE ret

CallGetSpecialKey ==
  /\ special.pc = "idle"
  /\ special' = KeyEntry(rawEvent)
  /\ ret' = Returns(special')
  /\ UNCHANGED <<rawEvent, stopped, prevented, keymap>>
  /\ UNCHANGED rvars

\* getSpecialKey() goes once round its loop
KeyLoop ==
  /\ special.pc = "loop"
  /\ special' = KeyIteration(keymap, special.c)
  /\ ret' = Returns(special')
  /\ UNCHANGED <<rawEvent, stopped, prevented, keymap>>
  /\ UNCHANGED rvars

NextEvent ==
  \/ CallStop
  \/ CallPrevent
  \/ CallKill
  \/ CallGetSpecialKey
  \/ KeyLoop

SpecEvent == InitEvent /\ [][NextEvent]_vars

\* a loop that can go round again does
SpecKeymap == InitKeymap /\ [][NextEvent]_vars /\ WF_vars(KeyLoop)

\* ------------------------------------------------------------ properties
IsNotif(e) == e.ch \in {"done", "error", "finally"}
IsDone(e) == e.ch = "done"

\* the notifications of subscribers among the entries of a log
Notifs(l) == SelectSeq(l, IsNotif)

Count(l, ch) == Cardinality({i \in 1 .. Len(l) : l[i].ch = ch})

Range(q) == {q[i] : i \in 1 .. Len(q)}

\* what a step added to the log of t, given that it only added
Extends(t) ==
  /\ Len(log'[t]) >= Len(log[t])
  /\ SubSeq(log'[t], 1, Len(log[t])) = log[t]
NewEntries(t) == SubSeq(log'[t], Len(log[t]) + 1, Len(log'[t]))

\* the step notified error with err, then finally, and nothing else
FailedWith(t, err) ==
  /\ Extends(t)
  /\ Len(NewEntries(t)) = 2
  /\ NewEntries(t)[1].ch = "error"
  /\ NewEntries(t)[1].args = <<err>>
  /\ NewEntries(t)[2].ch = "finally"
  /\ NewEntries(t)[2].args = <<>>

\* the log of a request that failed by timeout and was notified of nothing else
TimedOutOnce(l) ==
  /\ Len(Notifs(l)) = 2
  /\ Notifs(l)[1].ch = "error"
  /\ Notifs(l)[1].args = <<Num(-9000)>>
  /\ Notifs(l)[2].ch = "finally"

\* C1: for a request sent once, when the timeout timer fires the error
\* subscribers are notified once with -9000, then the finally subscribers
\* once; after that no step, whatever the platform reports, notifies again.
C1_TimeoutOnce ==
  [][\A t \in Transports :
       (sends[t] = 1 /\ sends'[t] = 1) =>
         /\ TimerFires(t) => TimedOutOnce(log'[t])
         /\ TimedOutOnce(log[t]) => log'[t] = log[t]]_vars

\* a request sent once has timed out: its timer fired and it is finished
C1_Witness ==
  \E t \in Transports :
    sends[t] = 1 /\ finished[t] /\ timer[t] = "dead" /\ TimedOutOnce(log[t])

\* C2: for a request sent once, over its whole life done and error together
\* are notified at most once, never both, and finally at most once.
C2_FirstOutcomeWins ==
  \A t \in Transports :
    sends[t] <= 1 =>
      /\ Count(log[t], "done") + Count(log[t], "error") <= 1
      /\ ~(Count(log[t], "done") > 0 /\ Count(log[t], "error") > 0)
      /\ Count(log[t], "finally") <= 1

\* a request sent once with a timeout succeeded and its timer was stopped
C2_Witness ==
  \E t \in Transports :
    /\ sends[t] = 1
    /\ Count(log[t], "done") = 1
    /\ Count(log[t], "finally") = 1
    /\ timer[t] = "dead"

\* C3: abort() on a request in flight notifies nobody, and once it has
\* returned no subscriber of that request is notified by any later timer or
\* readiness notification (the request is not sent again).
C3_AbortSilences ==
  [][\A t \in Transports :
       /\ (CallAbort(t) /\ InFlight(t)) => log' = log
       /\ t \in aborted => log'[t] = log[t]]_vars

\* C4: abort() on a request whose exchange was already torn down raises
\* nothing, notifies nobody and leaves _finished and _xhr as they were.
C4_AbortIdempotent ==
  [][\A t \in Transports :
       (/\ CallAbort(t)
        /\ finished[t]
        /\ transport[t] # Null
        /\ transport[t].aborted)
       => (exc' = "none" /\ log' = log /\ finished' = finished /\ xhr' = xhr)]_vars

\* the bodies that are empty or do not begin with 'for (;;);'
BadBodies == {b \in Bodies : Len(b) < 9 \/ SubSeq(b, 1, 9) # Prefix}

\* C5: a completed exchange with a 2xx status whose body is empty or lacks
\* the prefix notifies error with no error value, then finally, never done.
C5_BadPrefixFails ==
  [][\A t \in Transports, b \in BadBodies, st \in {200, 299} :
       (~finished[t]
        /\ Report(t, [readyState |-> 4, status |-> st, responseText |-> b]))
       => FailedWith(t, Undefined)]_vars

\* C6: the error value follows the kind of failure: none for a status outside
\* [200,300), the envelope's truthy error for an application failure, -9000
\* for a timeout; the step notifies error, then finally, and never done.
C6_ErrorArgument ==
  [][\A t \in Transports :
       /\ \A r \in Reports :
            (/\ ~finished[t]
             /\ r.readyState = 4
             /\ (r.status < 200 \/ r.status >= 300)
             /\ Report(t, r))
            => FailedWith(t, Undefined)
       /\ (/\ ~finished[t]
           /\ Report(t, [readyState |-> 4, status |-> 200,
                         responseText |-> Prefix \o <<TextError>>]))
          => FailedWith(t, Str(<<"e">>))
       /\ (TimerFires(t) \/ OrphanTimerFires(t))
          => FailedWith(t, Num(-9000))]_vars

\* one request failed with the envelope's error, another by timeout
C6_Witness ==
  \E t1, t2 \in Transports :
    /\ \E i \in 1 .. Len(log[t1]) :
         log[t1][i].ch = "error" /\ log[t1][i].args = <<Str(<<"e">>)>>
    /\ \E i \in 1 .. Len(log[t2]) :
         log[t2][i].ch = "error" /\ log[t2][i].args = <<Num(-9000)>>

\* the envelopes that make a success
SuccessTexts == {TextPayload, TextFalsyError, TextFull}

\* C7: a success notifies done once with one argument, the envelope's payload
\* when raw is false and the parsed envelope when raw is true; a handler given
\* to the constructor is among those who receive it.
C7_DoneArgument ==
  [][\A t \in Transports, text \in SuccessTexts :
       (~finished[t]
        /\ Report(t, [readyState |-> 4, status |-> 200,
                      responseText |-> Prefix \o <<text>>]))
       => LET dones == SelectSeq(NewEntries(t), IsDone) IN
          /\ Extends(t)
          /\ Len(dones) = 1
          /\ dones[1].args =
               <<IF props[t].raw THEN Parsed[text] ELSE Parsed[text].obj.payload>>
          /\ "onDone" \in Range(dones[1].to)
          /\ handler => "handler" \in Range(dones[1].to)]_vars

\* with a constructor handler and raw false, one request delivered the
\* payload {x:1} to the handler and another the payload 'p'
C7_Witness ==
  \E t1, t2 \in Transports :
    /\ handler
    /\ ~props[t1].raw
    /\ \E i \in 1 .. Len(log[t1]) :
         /\ log[t1][i].ch = "done"
         /\ log[t1][i].args = <<Obj([x |-> Num(1)])>>
         /\ "handler" \in Range(log[t1][i].to)
    /\ \E i \in 1 .. Len(log[t2]) :
         /\ log[t2][i].ch = "done"
         /\ log[t2][i].args = <<Str(<<"p">>)>>

\* the text of one pair, and of the marker
PairText(e) ==
  EncodeURIComponent(e.k) \o <<"=">>
    \o EncodeURIComponent(IF "str" \in DOMAIN e.v THEN e.v.str ELSE <<"true">>)
MarkerText == <<"__async__", "=", "true">>

RECURSIVE AmpJoined(_)
AmpJoined(texts) ==
  IF texts = <<>> THEN <<>>
  ELSE IF Len(texts) = 1 THEN texts[1]
  ELSE texts[1] \o <<"&">> \o AmpJoined(Tail(texts))

\* the payload's pairs in payload order, followed by the marker
ClaimedQuery(d) ==
  AmpJoined([i \in 1 .. Len(d) |-> PairText(d[i])] \o <<MarkerText>>)

\* the same, except that a key __async__ of the payload is not followed by
\* a second marker: its pair reads __async__=true where it stands
AmendedQuery(d) ==
  IF \E i \in 1 .. Len(d) : d[i].k = MarkerKey
  THEN AmpJoined([i \in 1 .. Len(d) |->
                    IF d[i].k = MarkerKey THEN MarkerText ELSE PairText(d[i])])
  ELSE ClaimedQuery(d)

PayloadOf(p) == IF p.data = Null THEN <<>> ELSE p.data.map

\* the handle that carries query q for a request with the properties p
Carries(h, p, q) ==
  IF p.method \in {<<"GET">>, <<"get">>}
  THEN /\ h.method = <<"GET">>
       /\ h.uri = p.URI
                    \o (IF "?" \in Range(p.URI) THEN <<"&">> ELSE <<"?">>) \o q
       /\ h.body = Null
       /\ h.headers = <<>>
  ELSE /\ h.method = <<"POST">>
       /\ h.uri = p.URI
       /\ h.body = Str(q)
       /\ h.headers = <<[name |-> "Content-Type",
                         value |-> "application/x-www-form-urlencoded"]>>

\* C8 as stated, for the first send() of a request: the query is the payload's
\* encoded pairs in payload order followed by __async__=true; GET appends it
\* to the URI after '?' or '&' and sends no body, POST sends it as the body.
C8_MarkerFollowsPayload ==
  [][\A t \in Transports :
       (CallSend(t) /\ sends[t] = 0)
       => Carries(transport'[t], props[t], ClaimedQuery(PayloadOf(props[t])))]_vars

\* C8 amended, for every send(): as stated, except that the pair of a key
\* __async__ the payload already has reads __async__=true in its place and
\* no marker follows.
C8_MarkerSetInPayload ==
  [][\A t \in Transports :
       CallSend(t)
       => Carries(transport'[t], props[t], AmendedQuery(PayloadOf(props[t])))]_vars

\* GET of {a: '1'} to http://x/y was sent, and sent a second time by another
\* request with the same target
C8_Witness ==
  \E t1, t2 \in Transports :
    /\ props[t1].method = <<"GET">>
    /\ transport[t1] # Null
    /\ transport[t1].uri =
         <<"http://x/y", "?", "a", "=", "1", "&", "__async__", "=", "true">>
    /\ transport[t1].body = Null
    /\ sends[t2] = 2
    /\ transport[t2].uri = transport[t1].uri

\* C9: every done or error notification is followed at once by the finally
\* notification, which has no argument, and every subscriber runs after the
\* teardown: finished set, no entry in _xhr, no pending timer, handle aborted.
C9_TeardownBeforeNotify ==
  \A t \in Transports :
    LET n == Notifs(log[t]) IN
    /\ Len(n) % 2 = 0
    /\ \A i \in 1 .. Len(n) :
         /\ i % 2 = 1 => n[i].ch \in {"done", "error"}
         /\ i % 2 = 0 => (n[i].ch = "finally" /\ n[i].args = <<>>)
         /\ n[i].snap.finished
         /\ ~n[i].snap.registered
         /\ n[i].snap.timers = 0
         /\ n[i].snap.aborted

\* C10: shutdown() lets no exception escape, empties _xhr, leaves every
\* former member finished and its handle told to abort, and notifies nobody,
\* also when the abort() of some platform handles raises.
C10_ShutdownSweeps ==
  [][CallShutdown =>
       /\ exc' = "none"
       /\ xhr' = <<>>
       /\ log' = log
       /\ \A t \in Members(xhr) :
            /\ finished'[t]
            /\ t \notin badAbort => transport'[t].aborted]_vars

\* shutdown() swept two members, one of them with a raising abort()
C10_Witness ==
  \E t1, t2 \in Transports :
    /\ {t1, t2} \subseteq swept
    /\ t1 \in badAbort
    /\ t2 \notin badAbort
    /\ xhr = <<>>
    /\ finished[t1] /\ finished[t2]
    /\ transport[t2].aborted
    /\ log[t1] = <<>> /\ log[t2] = <<>>
    /\ exc = "none"

\* what stop() asks of the native event r: cancelBubble set, the method
\* called when there is one, the rest untouched
StopRequested(r, q) ==
  q = [r EXCEPT !.cancelBubble = TRUE,
                !.calls = IF r.stopPropagation
                          THEN Append(@, "stopPropagation") ELSE @]

\* what prevent() asks of the native event r
PreventRequested(r, q) ==
  q = [r EXCEPT !.returnValue = FALSE,
                !.calls = IF r.preventDefault
                          THEN Append(@, "preventDefault") ELSE @]

\* what kill() asks of the native event r: the one, then the other
KillRequested(r, q) ==
  q = [r EXCEPT !.returnValue = FALSE,
                !.cancelBubble = TRUE,
                !.calls = @ \o (IF r.preventDefault
                                THEN <<"preventDefault">> ELSE <<>>)
                            \o (IF r.stopPropagation
                                THEN <<"stopPropagation">> ELSE <<>>)]

\* C11: stopped and prevented never go back to false; stop() sets stopped
\* and leaves prevented alone, prevent() sets prevented and leaves stopped
\* alone, kill() leaves what prevent() then stop() leave, with both flags
\* set; each returns the event; a native event is asked to stop or prevent
\* through the method when it has one and through the flag in any case.
C11_StopPreventKill ==
  [][/\ stopped => stopped'
     /\ prevented => prevented'
     /\ CallStop =>
          /\ stopped' /\ prevented' = prevented
          /\ ret' = [op |-> "stop", value |-> This]
          /\ IF rawEvent = Null THEN rawEvent' = Null
             ELSE StopRequested(rawEvent, rawEvent')
     /\ CallPrevent =>
          /\ prevented' /\ stopped' = stopped
          /\ ret' = [op |-> "prevent", value |-> This]
          /\ IF rawEvent = Null THEN rawEvent' = Null
             ELSE PreventRequested(rawEvent, rawEvent')
     /\ CallKill =>
          /\ stopped' /\ prevented'
          /\ ret' = [op |-> "kill", value |-> This]
          /\ IF rawEvent = Null THEN rawEvent' = Null
             ELSE KillRequested(rawEvent, rawEvent')]_vars

\* kill() returned on an event whose native event has preventDefault and
\* lacks stopPropagation, after a prevent()
C11_Witness ==
  /\ ret = [op |-> "kill", value |-> This]
  /\ stopped /\ prevented
  /\ rawEvent # Null
  /\ ~rawEvent.stopPropagation
  /\ rawEvent.cancelBubble /\ ~rawEvent.returnValue
  /\ rawEvent.calls = <<"preventDefault", "preventDefault">>

\* the symbolic names of the table
KeyNames ==
  {Str(<<"delete">>), Str(<<"tab">>), Str(<<"return">>), Str(<<"esc">>),
   Str(<<"left">>), Str(<<"up">>), Str(<<"right">>), Str(<<"down">>)}

\* the name the shipped table holds for a code, after one redirect at most
NameOf(code) ==
  IF code \notin DOMAIN ShippedKeymap THEN Null
  ELSE IF ShippedKeymap[code] \in KeyNames THEN ShippedKeymap[code]
  ELSE ShippedKeymap[ShippedKeymap[code].num]

\* getSpecialKey() returns on this step
KeyReturns == (CallGetSpecialKey \/ KeyLoop) /\ special'.pc = "idle"

\* C12: getSpecialKey() returns null without a native event or with shift
\* held; otherwise null or one of the eight names, never a number: 'down'
\* for 40 and for 63233, and for a redirecting code the name of the code it
\* redirects to.
C12_SpecialKey ==
  [][KeyReturns =>
       /\ ret'.op = "getSpecialKey"
       /\ ret'.value \in KeyNames \cup {Null}
       /\ IF rawEvent = Null THEN ret'.value = Null
          ELSE IF rawEvent.shiftKey THEN ret'.value = Null
          ELSE /\ ret'.value = NameOf(rawEvent.keyCode)
               /\ rawEvent.keyCode \in {40, 63233}
                    => ret'.value = Str(<<"down">>)]_vars

\* getSpecialKey() returned 'down' for the code 63233
C12_Witness ==
  /\ ret = [op |-> "getSpecialKey", value |-> Str(<<"down">>)]
  /\ special.pc = "idle"
  /\ rawEvent # Null
  /\ rawEvent.keyCode = 63233
  /\ ~rawEvent.shiftKey

\* the channels of the entries of a log, in order
Channels(l) == [i \in 1 .. Len(l) |-> l[i].ch]

\* the snippets of an envelope, as the arguments of the onload entries
Snippets(response) ==
  IF Truthy(Get(response, "onload")) THEN Get(response, "onload").arr ELSE <<>>

\* C13: a success has these effects, each once and in this order: the
\* metadata is merged (before the teardown), the teardown is made, the onload
\* snippets run in their order, done is notified, finally is notified, the
\* behaviors are initialized.
C13_SuccessOrder ==
  [][\A t \in Transports, text \in SuccessTexts :
       (~finished[t]
        /\ Report(t, [readyState |-> 4, status |-> 200,
                      responseText |-> Prefix \o <<text>>]))
       => LET n == NewEntries(t)
              k == Len(Snippets(Parsed[text]))
          IN /\ Extends(t)
             /\ Len(n) = k + 4
             /\ n[1].ch = "mergeData"
             /\ n[1].args = <<Or(Get(Parsed[text], "javelin_metadata"),
                                 EmptyObject)>>
             /\ ~n[1].snap.finished
             /\ \A i \in 1 .. k :
                  /\ n[1 + i].ch = "onload"
                  /\ n[1 + i].args = <<Snippets(Parsed[text])[i]>>
                  /\ n[1 + i].snap.finished
             /\ n[k + 2].ch = "done"
             /\ n[k + 3].ch = "finally"
             /\ n[k + 4].ch = "initBehaviors"
             /\ n[k + 4].args = <<Or(Get(Parsed[text], "javelin_behaviors"),
                                     EmptyObject)>>]_vars

\* an envelope with metadata, two snippets and behaviors was handled
C13_Witness ==
  \E t \in Transports :
    /\ Channels(log[t]) =
         <<"mergeData", "onload", "onload", "done", "finally", "initBehaviors">>
    /\ log[t][1].args = <<Obj([m |-> Num(1)])>>
    /\ log[t][2].args = <<"s1">>
    /\ log[t][3].args = <<"s2">>
    /\ finished[t]

\* C14: in every state a request is in _xhr exactly when it is in flight
\* (sent and not finished), and the handle of a finished request has been
\* told to abort.
C14_RegistryInvariant ==
  \A t \in Transports :
    /\ t \in Members(xhr) <=> InFlight(t)
    /\ (finished[t] /\ transport[t] # Null) => transport[t].aborted

\* a step that can tear request a down
Teardown(a) ==
  CallAbort(a) \/ ReadyStateChange(a) \/ TimerFires(a) \/ OrphanTimerFires(a)

\* C15: a teardown of request a, by abort(), completion or timer, also after
\* shutdown() has reset _xhr, leaves the entry of every other request in
\* _xhr where it was.
C15_OwnEntryOnly ==
  [][\A a \in Transports :
       Teardown(a) =>
         /\ Len(xhr') = Len(xhr)
         /\ \A i \in 1 .. Len(xhr) :
              xhr[i] \notin {a, Hole} => xhr'[i] = xhr[i]]_vars

\* C17: a notification with readyState 4 that reaches an unfinished request
\* finishes it before it returns: finished set, no entry in _xhr, no pending
\* timer, and done or error notified, whatever the status and the body.
C17_CompletionFinishes ==
  [][\A t \in Transports, r \in Reports :
       (~finished[t] /\ r.readyState = 4 /\ Report(t, r))
       => /\ finished'[t]
          /\ t \notin Members(xhr')
          /\ timer'[t] # "pending"
          /\ Extends(t)
          /\ \E i \in 1 .. Len(NewEntries(t)) :
               NewEntries(t)[i].ch \in {"done", "error"}]_vars

\* C19: abort() on a request that was never sent raises nothing, notifies
\* nobody and leaves _xhr as it was.
C19_AbortUnsent ==
  [][\A t \in Transports :
       (CallAbort(t) /\ sends[t] = 0)
       => (exc' = "none" /\ log' = log /\ xhr' = xhr)]_vars

\* the slots of _xhr that hold request t
Slots(t) == {i \in 1 .. Len(xhr) : xhr[i] = t}

\* C20: whatever was called on a request, send() more than once included, it
\* holds at most one slot of _xhr and has at most one pending timer, and no
\* timer of a finished request is pending.
C20_OwnedResources ==
  \A t \in Transports :
    /\ Cardinality(Slots(t)) <= 1
    /\ Snapshot(St, t).timers <= 1
    /\ finished[t] => Snapshot(St, t).timers = 0

\* C16: whatever the table holds, a chain or a cycle of redirects included,
\* a getSpecialKey() that has entered its loop returns.
C16_Terminates == (special.pc = "loop") ~> (special.pc = "idle")

\* the reports of a success
SuccessReports ==
  {r \in Reports :
     /\ r.readyState = 4 /\ r.status >= 200 /\ r.status < 300
     /\ \E text \in SuccessTexts : r.responseText = Prefix \o <<text>>}

\* C18: every run of the success path or of the failure path (the request
\* was torn down by a completion) notifies finally once, also when an onload
\* snippet raises; no exception leaves the completion
\* handler, and a success never notifies error.
C18_FinallyUnconditional ==
  [][\A t \in Transports, r \in Reports :
       (~finished[t] /\ Report(t, r) /\ finished'[t])
       => /\ Extends(t)
          /\ Count(NewEntries(t), "finally") = 1
          /\ exc' = "none"
          /\ r \in SuccessReports => Count(NewEntries(t), "error") = 0]_vars

====
